---- MODULE Spec2Model ----
(***************************************************************************)
(* A model of cline: the argv resolver of Cli (cli.ts), the coercion       *)
(* registry ParserRegistry and the generic type-name reader                *)
(* (valueParser.ts).                                                       *)
(*                                                                         *)
(* Text is a sequence of one-character strings, so that prefixes, splits   *)
(* and case folding are computed rather than assumed.                      *)
(***************************************************************************)
EXTENDS Integers, Sequences, FiniteSets, TLC

(***************************************************************************)
(* Bounds of the model.                                                    *)
(***************************************************************************)
MaxArgs == 3

(***************************************************************************)
(* JavaScript string primitives used by the sources.                       *)
(***************************************************************************)
startsWith(text, prefix) ==
    /\ Len(text) >= Len(prefix)
    /\ SubSeq(text, 1, Len(prefix)) = prefix

endsWith(text, suffix) ==
    /\ Len(text) >= Len(suffix)
    /\ SubSeq(text, Len(text) - Len(suffix) + 1, Len(text)) = suffix

\* text.substring(from) with a 0-based index
substringFrom(text, from) == SubSeq(text, from + 1, Len(text))

\* text.substring(from, to) with 0-based indexes, to exclusive
substring(text, from, to) == SubSeq(text, from + 1, to)

\* text.indexOf(sep): the 0-based position of the first occurrence, or -1
indexOf(text, sep) ==
    LET hits == {p \in 0..(Len(text) - Len(sep)) :
                    SubSeq(text, p + 1, p + Len(sep)) = sep}
    IN  IF hits = {} THEN -1
        ELSE CHOOSE p \in hits : \A q \in hits : p <= q

\* text.lastIndexOf(sep)
lastIndexOf(text, sep) ==
    LET hits == {p \in 0..(Len(text) - Len(sep)) :
                    SubSeq(text, p + 1, p + Len(sep)) = sep}
    IN  IF hits = {} THEN -1
        ELSE CHOOSE p \in hits : \A q \in hits : p >= q

\* text.split(sep) for a non-empty separator: the pieces between occurrences
RECURSIVE split(_, _)
split(text, sep) ==
    LET pos == indexOf(text, sep)
    IN  IF pos < 0 THEN <<text>>
        ELSE <<substring(text, 0, pos)>>
                \o split(substringFrom(text, pos + Len(sep)), sep)

\* pieces.join(sep)
RECURSIVE join(_, _)
join(pieces, sep) ==
    IF pieces = <<>> THEN <<>>
    ELSE IF Len(pieces) = 1 THEN pieces[1]
    ELSE pieces[1] \o sep \o join(Tail(pieces), sep)

LowerOf ==
    [c \in {"A", "B", "D", "E", "F", "H", "L", "N", "O", "P", "R", "S", "T", "U", "Y"} |->
        CASE c = "A" -> "a" [] c = "B" -> "b" [] c = "D" -> "d" [] c = "E" -> "e"
          [] c = "F" -> "f" [] c = "H" -> "h" [] c = "L" -> "l" [] c = "N" -> "n"
          [] c = "O" -> "o" [] c = "P" -> "p" [] c = "R" -> "r" [] c = "S" -> "s"
          [] c = "T" -> "t" [] c = "U" -> "u" [] c = "Y" -> "y"]

\* text.toLowerCase() over the characters the model uses
toLowerCase(text) ==
    [k \in 1..Len(text) |->
        IF text[k] \in DOMAIN LowerOf THEN LowerOf[text[k]] ELSE text[k]]


(***************************************************************************)
(* JavaScript values.                                                      *)
(***************************************************************************)
Undefined == [t |-> "undefined"]
Null == [t |-> "null"]
Str(chars) == [t |-> "string", s |-> chars]

\* value != null / value == null (loose equality: null and undefined only)
isNil(value) == value.t \in {"undefined", "null"}

(***************************************************************************)
(* The member names and argv tokens the model uses.                        *)
(***************************************************************************)
foo == <<"f", "o", "o">>
bar == <<"b", "a", "r">>
nameProp == <<"n", "a", "m", "e">>
stuff == <<"s", "t", "u", "f", "f">>
goob == <<"g", "o", "o", "b">>
lastName == <<"l", "a", "s", "t", "N", "a", "m", "e">>
version == <<"v", "e", "r", "s", "i", "o", "n">>
hi == <<"h", "i">>
toStringProp == <<"t", "o", "S", "t", "r", "i", "n", "g">>
helpWord == <<"h", "e", "l", "p">>
helpUpper == <<"H", "E", "L", "P">>
hello == <<"h", "e", "l", "l", "o">>
flagX1 == <<"-", "-", "x", "=", "1">>
flagDebug == <<"-", "-", "d", "e", "b", "u", "g", "=", "o", "n">>
flagY == <<"-", "-", "y">>
flagABC == <<"-", "-", "a", "=", "b", "=", "c">>
flagProto == <<"-", "-", "_", "_", "p", "r", "o", "t", "o", "_", "_", "=", "1">>
protoName == <<"_", "_", "p", "r", "o", "t", "o", "_", "_">>

FLAG_PREFIX == <<"-", "-">>

(***************************************************************************)
(* The live command trees handed to Cli.run: the demo program and the      *)
(* program of the README.  A tree maps the path of each own member to the  *)
(* typeof its value.                                                       *)
(***************************************************************************)
DemoProgram ==
    (<<>> :> "object")
    @@ (<<foo>> :> "object")
    @@ (<<foo, nameProp>> :> "string")
    @@ (<<foo, stuff>> :> "function")
    @@ (<<foo, bar>> :> "function")
    @@ (<<goob>> :> "object")
    @@ (<<goob, lastName>> :> "string")
    @@ (<<version>> :> "function")

ReadmeProgram ==
    (<<>> :> "object")
    @@ (<<foo>> :> "object")
    @@ (<<foo, stuff>> :> "function")
    @@ (<<foo, hi>> :> "function")

\* a program with a command named like the help keyword inside a group, a
\* scalar that is a number, and a member whose value is a symbol
HelpProgram ==
    (<<>> :> "object")
    @@ (<<bar>> :> "symbol")
    @@ (<<foo>> :> "object")
    @@ (<<foo, helpWord>> :> "function")
    @@ (<<foo, nameProp>> :> "number")

Programs == [demo |-> DemoProgram, readme |-> ReadmeProgram, helper |-> HelpProgram]

\* the names every plain object inherits from Object.prototype (functions)
ObjectPrototype == {toStringProp}

\* typeof context[arg] for a live context that is an object of the tree program
typeofMember(program, path, arg) ==
    IF Append(path, arg) \in DOMAIN program
        THEN program[Append(path, arg)]
    ELSE IF arg \in ObjectPrototype THEN "function"
    ELSE "undefined"

(***************************************************************************)
(* The metadata tree generated for each program: kind and declared         *)
(* parameters of every member.                                             *)
(***************************************************************************)
MetaKind(program, path) ==
    IF path = <<>> THEN "interface"
    ELSE CASE Programs[program][path] = "object" -> "objectProperty"
           [] Programs[program][path] = "function" -> "method"
           [] OTHER -> "scalarProperty"

MetaParameters(program, path) ==
    IF program = "demo" /\ path = <<foo, bar>>
        THEN <<[pname |-> "baz", nullable |-> FALSE], [pname |-> "bat", nullable |-> TRUE]>>
    ELSE IF program = "readme" /\ path = <<foo, hi>>
        THEN <<[pname |-> "name", nullable |-> FALSE]>>
    ELSE <<>>

\* a documentation text: what it says and how many characters it has
Doc(words, length) == [t |-> "string", words |-> words, length |-> length]

\* the description the generator reads from the documentation comment of a member
MetaDescription(program, path) ==
    CASE program = "demo" /\ path = <<foo>> -> Doc("Tests foozball.", 15)
      [] program = "demo" /\ path = <<foo, nameProp>> -> Doc("Gets the dude's first name", 26)
      [] program = "demo" /\ path = <<foo, stuff>> -> Doc("Gets some random stuff.", 23)
      [] program = "demo" /\ path = <<foo, bar>> ->
            Doc("Uses bats to transform bazzes in a barological pattern. This is completely irreversible and may cause the destruction of the universe.", 134)
      [] program = "demo" /\ path = <<goob>> -> Doc("Manages goobers.", 16)
      [] program = "demo" /\ path = <<goob, lastName>> -> Doc("Gets the dude's last name.", 26)
      [] program = "demo" /\ path = <<version>> -> Doc("Gets the version of the app.", 28)
      [] program = "readme" /\ path = <<foo>> -> Doc("Manages foozball.", 17)
      [] program = "readme" /\ path = <<foo, stuff>> -> Doc("Gets some random stuff.", 23)
      [] program = "readme" /\ path = <<foo, hi>> -> Doc("Greets a person.", 16)
      [] program = "helper" /\ path = <<foo, helpWord>> -> Doc("Explains foo at length.", 23)
      [] OTHER -> Undefined

\* the text of the summary tag of a method; only the help command of the third
\* program has one
MetaSummary(program, path) ==
    IF program = "helper" /\ path = <<foo, helpWord>>
        THEN Doc("Explains foo.", 13)
        ELSE Undefined

\* the metadata tree of a program: the kind, the parameters and the documentation
\* of each member the generator has a type for
MetaInterfaceOf(name) ==
    [path \in {q \in DOMAIN Programs[name] : Programs[name][q] # "symbol"} |->
        [kind |-> MetaKind(name, path),
         parameters |-> MetaParameters(name, path),
         description |-> MetaDescription(name, path),
         summary |-> MetaSummary(name, path)]]

\* the metadata tree generated for each program
MetaInterfaces == [name \in DOMAIN Programs |-> MetaInterfaceOf(name)]

\* the parameters the metadata declares for the member at a path, if it has any
declaredParameters(metaInterface, path) ==
    IF path \in DOMAIN metaInterface THEN metaInterface[path].parameters ELSE <<>>


(***************************************************************************)
(* booleanFlagValue, which reads DEBUG_MODE from the environment.          *)
(***************************************************************************)
FLAG_NO_VALUES == {<<"n", "o">>, <<"0">>, <<"o", "f", "f">>, <<"f", "a", "l", "s", "e">>}
FLAG_YES_VALUES == {<<"y", "e", "s">>, <<"1">>, <<"o", "n">>, <<"t", "r", "u", "e">>}

\* the result is [ok, value]; ok = FALSE when the function throws
booleanFlagValue(value, defaultValue) ==
    IF value = Undefined \/ value = Str(<<>>)
        THEN [ok |-> TRUE, value |-> defaultValue]
    ELSE IF toLowerCase(value.s) \in FLAG_NO_VALUES
        THEN [ok |-> TRUE, value |-> FALSE]
    ELSE IF toLowerCase(value.s) \in FLAG_YES_VALUES
        THEN [ok |-> TRUE, value |-> TRUE]
    ELSE [ok |-> FALSE, value |-> FALSE]

\* the values of process.env.DEBUG the model starts from
DebugEnv == {Undefined, Str(<<"1">>), Str(<<"O", "f", "f">>)}

(***************************************************************************)
(* The type-name reader of valueParser.ts.  A descriptor is                *)
(* [typeName, typeParameters]; a read is [ok, desc, pos], with pos the     *)
(* position of the shared StringReader after it.                           *)
(***************************************************************************)
LowerLetters ==
    {"a", "b", "c", "d", "e", "f", "g", "h", "i", "j", "k", "l", "m",
     "n", "o", "p", "q", "r", "s", "t", "u", "v", "w", "x", "y", "z"}
UpperLetters ==
    {"A", "B", "C", "D", "E", "F", "G", "H", "I", "J", "K", "L", "M",
     "N", "O", "P", "Q", "R", "S", "T", "U", "V", "W", "X", "Y", "Z"}
Digits == {"0", "1", "2", "3", "4", "5", "6", "7", "8", "9"}

isIdentifierChar(ch, position) ==
    \/ ch \in LowerLetters
    \/ ch \in UpperLetters
    \/ ch \in {"_", "$"}
    \/ (position > 0 /\ ch \in Digits)

GenericTypeName(typeName, typeParameters) ==
    [typeName |-> typeName, typeParameters |-> typeParameters]

NoTypeName == GenericTypeName(<<>>, <<>>)

RECURSIVE readLoop(_, _, _, _, _, _)
\* the while loop of readTypeNameFromReader, from reader position pos (0-based)
readLoop(str, pos, nameOver, typeOver, buffer, typeParameters) ==
    IF pos >= Len(str)
        THEN [ok |-> TRUE, desc |-> GenericTypeName(buffer, typeParameters), pos |-> pos]
    ELSE LET ch == str[pos + 1]
         IN  IF ch = " "
                THEN readLoop(str, pos + 1, nameOver \/ Len(buffer) > 0, typeOver,
                              buffer, typeParameters)
             ELSE IF ~nameOver /\ ~typeOver /\ isIdentifierChar(ch, Len(buffer))
                THEN readLoop(str, pos + 1, nameOver, typeOver,
                              Append(buffer, ch), typeParameters)
             ELSE IF ch \in {"<", ","}
                THEN LET parameter == readLoop(str, pos + 1, FALSE, FALSE, <<>>, <<>>)
                     IN  IF parameter.ok
                            THEN readLoop(str, parameter.pos, TRUE, typeOver, buffer,
                                          Append(typeParameters, parameter.desc))
                            ELSE parameter
             ELSE IF ch = ">"
                THEN readLoop(str, pos + 1, TRUE, TRUE, buffer, typeParameters)
             ELSE [ok |-> FALSE, desc |-> NoTypeName, pos |-> pos + 1]

readTypeNameFromReader(str, pos) == readLoop(str, pos, FALSE, FALSE, <<>>, <<>>)

\* an element name that kept the opening bracket
getArrayElementTypeName_keepsBracket(typeName) ==
    substring(typeName, 0, Len(typeName) - 1)

getArrayElementTypeName(typeName) ==
    IF endsWith(typeName, <<"[", "]">>)
        THEN substring(typeName, 0, Len(typeName) - 2)
        ELSE substring(typeName, indexOf(typeName, <<"<">>) + 1,
                       lastIndexOf(typeName, <<">">>))

ArrayName == <<"A", "r", "r", "a", "y">>
RecordName == <<"R", "e", "c", "o", "r", "d">>
MapName == <<"M", "a", "p">>
SetName == <<"S", "e", "t">>
ReadonlyPrefix == <<"R", "e", "a", "d", "o", "n", "l", "y">>

parseTypeName(typeName) ==
    IF endsWith(typeName, <<"[", "]">>)
        THEN [ok |-> TRUE,
              desc |-> GenericTypeName(ArrayName,
                          <<GenericTypeName(getArrayElementTypeName(typeName), <<>>)>>),
              pos |-> Len(typeName)]
        ELSE readTypeNameFromReader(typeName, 0)

ARRAY_BASE_TYPE_NAMES ==
    {ArrayName, ReadonlyPrefix \o ArrayName, SetName, ReadonlyPrefix \o SetName}
RECORD_BASE_TYPE_NAMES == {RecordName, MapName, ReadonlyPrefix \o MapName}

(***************************************************************************)
(* The coercers of ParserRegistry.  A coercion is [ok, value, error]; the  *)
(* texts of the model have no blank, sign, point or exponent, so Number    *)
(* and BigInt read a run of digits or fail.                                *)
(***************************************************************************)
DigitValue ==
    [c \in Digits |->
        CASE c = "0" -> 0 [] c = "1" -> 1 [] c = "2" -> 2 [] c = "3" -> 3 [] c = "4" -> 4
          [] c = "5" -> 5 [] c = "6" -> 6 [] c = "7" -> 7 [] c = "8" -> 8 [] c = "9" -> 9]

RECURSIVE decimalValue(_)
decimalValue(chars) ==
    IF chars = <<>> THEN 0
    ELSE 10 * decimalValue(SubSeq(chars, 1, Len(chars) - 1)) + DigitValue[chars[Len(chars)]]

isDigits(chars) == \A k \in DOMAIN chars : chars[k] \in Digits

Returned(value) == [ok |-> TRUE, value |-> value, error |-> ""]
Thrown(error) == [ok |-> FALSE, value |-> Undefined, error |-> error]

NaN == [t |-> "number", nan |-> TRUE, v |-> 0]
Num(v) == [t |-> "number", nan |-> FALSE, v |-> v]
Bool(b) == [t |-> "boolean", v |-> b]

\* String(text)
StringParser(chars) == Returned(Str(chars))
\* Number(text)
NumberParser(chars) == Returned(IF isDigits(chars) THEN Num(decimalValue(chars)) ELSE NaN)
\* BigInt(text)
BigIntParser(chars) ==
    IF isDigits(chars) THEN Returned([t |-> "bigint", v |-> decimalValue(chars)])
    ELSE Thrown("SyntaxError")
\* Boolean(text): true for every non-empty string
BooleanParser(chars) == Returned(Bool(chars # <<>>))
\* Date.parse(text): a number that depends on the text alone
DateParser(chars) == Returned([t |-> "number", dateOf |-> chars])
\* identity(text)
identity(chars) == Returned(Str(chars))
\* a caller-supplied coercer: the yes/no vocabulary of booleanFlagValue
YesNoParser(chars) ==
    IF booleanFlagValue(Str(chars), FALSE).ok
        THEN Returned(Bool(booleanFlagValue(Str(chars), FALSE).value))
        ELSE Thrown("Illegal boolean flag value")

stringName == <<"s", "t", "r", "i", "n", "g">>
numberName == <<"n", "u", "m", "b", "e", "r">>
bigintName == <<"b", "i", "g", "i", "n", "t">>
booleanName == <<"b", "o", "o", "l", "e", "a", "n">>
dateName == <<"d", "a", "t", "e">>
undefinedName == <<"u", "n", "d", "e", "f", "i", "n", "e", "d">>
unknownName == <<"u", "n", "k", "n", "o", "w", "n">>
anyName == <<"a", "n", "y">>
yesnoName == <<"y", "e", "s", "n", "o">>

BuiltinParsers ==
    {stringName, numberName, bigintName, booleanName, dateName,
     undefinedName, unknownName, anyName}

\* Object.prototype.toString, which every plain object inherits, called on a
\* receiver: "[object Object]" on the parsers object, "[object Undefined]" detached
objectToString(receiver) ==
    <<"[", "o", "b", "j", "e", "c", "t", " ">> \o receiver \o <<"]">>

\* reader(chars) for reader = this.parsers[name], called without a receiver
applyParser(name, chars) ==
    CASE name = toStringProp ->
            Returned(Str(objectToString(<<"U", "n", "d", "e", "f", "i", "n", "e", "d">>)))
      [] name = stringName -> StringParser(chars)
      [] name = numberName -> NumberParser(chars)
      [] name = bigintName -> BigIntParser(chars)
      [] name = booleanName -> BooleanParser(chars)
      [] name = dateName -> DateParser(chars)
      [] name = yesnoName -> YesNoParser(chars)
      [] OTHER -> identity(chars)

\* the options a ParserRegistry is constructed with: the defaults, and a registry
\* with other separators and a caller-supplied coercer
DefaultOptions ==
    [parsers |-> BuiltinParsers,
     arraySeparator |-> <<",">>,
     recordEntrySeparator |-> <<",">>,
     recordKeyValueSeparator |-> <<"=">>]

CustomOptions ==
    [parsers |-> BuiltinParsers \cup {yesnoName},
     arraySeparator |-> <<"=">>,
     recordEntrySeparator |-> <<"=">>,
     recordKeyValueSeparator |-> <<",">>]

RegistryOptions == {DefaultOptions, CustomOptions}

\* typeName in this.parsers, and this.parsers[typeName] != null: the lookup follows
\* the prototype chain of the parsers object
hasParser(registry, name) == name \in registry.parsers \cup ObjectPrototype

\* this.parsers[typeName](chars): the call has the parsers object as its receiver
callParser(name, chars) ==
    IF name = toStringProp
        THEN Returned(Str(objectToString(<<"O", "b", "j", "e", "c", "t">>)))
    ELSE applyParser(name, chars)

\* the typeName of the k-th type parameter; a missing one is undefined, which as a
\* property key is the text "undefined"
typeParameterName(desc, k) ==
    IF k <= Len(desc.typeParameters) THEN desc.typeParameters[k].typeName
    ELSE undefinedName

\* the outcome of mapping a coercer over pieces: the first failure, or the values
RECURSIVE mapParser(_, _)
mapParser(name, pieces) ==
    IF pieces = <<>> THEN Returned(<<>>)
    ELSE LET first == applyParser(name, Head(pieces))
             rest == mapParser(name, Tail(pieces))
         IN  IF ~first.ok THEN first
             ELSE IF ~rest.ok THEN rest
             ELSE Returned(<<first.value>> \o rest.value)

parseArray(registry, elementTypeName, chars) ==
    IF ~hasParser(registry, elementTypeName)
        THEN Thrown("No parser for type")
    ELSE LET items == mapParser(elementTypeName, split(chars, registry.arraySeparator))
         IN  IF items.ok THEN Returned([t |-> "array", items |-> items.value])
             ELSE items

\* splitOnceOrZero(text, {separator}) without trim
splitOnceOrZero(chars, separator) ==
    LET pos == indexOf(chars, separator)
    IN  IF pos < 0 THEN <<chars>>
        ELSE <<substring(chars, 0, pos), substringFrom(chars, pos + 1)>>

RECURSIVE digitsOf(_)
digitsOf(n) ==
    LET last == CHOOSE c \in Digits : DigitValue[c] = n % 10
    IN  IF n < 10 THEN <<last>> ELSE Append(digitsOf(n \div 10), last)

\* the property key a coerced key becomes in Object.fromEntries
propertyKey(value) ==
    CASE value.t = "string" -> value.s
      [] value.t = "number" /\ "dateOf" \in DOMAIN value -> <<"date:">> \o value.dateOf
      [] value.t = "number" /\ "dateOf" \notin DOMAIN value ->
            IF value.nan THEN <<"N", "a", "N">> ELSE digitsOf(value.v)
      [] value.t = "bigint" -> digitsOf(value.v)
      [] value.t = "boolean" ->
            IF value.v THEN <<"t", "r", "u", "e">> ELSE <<"f", "a", "l", "s", "e">>
      [] OTHER -> undefinedName

\* a typed entry that ran the value coercer on an absent value too
typedEntry_coercesAbsent(keyTypeName, valueTypeName, tuple) ==
    LET key == applyParser(keyTypeName, tuple[1])
        value == applyParser(valueTypeName, IF Len(tuple) < 2 THEN <<>> ELSE tuple[2])
    IN  IF ~key.ok THEN key
        ELSE IF ~value.ok THEN value
        ELSE Returned([key |-> propertyKey(key.value), value |-> value.value])

\* the typed entry [keyReader(key), value == null ? undefined : valueReader(value)]
typedEntry(keyTypeName, valueTypeName, tuple) ==
    LET key == applyParser(keyTypeName, tuple[1])
        value == IF Len(tuple) < 2 THEN Returned(Undefined)
                 ELSE applyParser(valueTypeName, tuple[2])
    IN  IF ~key.ok THEN key
        ELSE IF ~value.ok THEN value
        ELSE Returned([key |-> propertyKey(key.value), value |-> value.value])

\* object[key] = value
withEntry(map, key, value) ==
    [n \in DOMAIN map \cup {key} |-> IF n = key THEN value ELSE map[n]]

\* Object.fromEntries over the typed entries, in order: a later entry overwrites
RECURSIVE fromEntries(_, _, _, _)
fromEntries(keyTypeName, valueTypeName, tuples, map) ==
    IF tuples = <<>> THEN Returned([t |-> "object", map |-> map])
    ELSE LET entry == typedEntry(keyTypeName, valueTypeName, Head(tuples))
         IN  IF ~entry.ok THEN entry
             ELSE fromEntries(keyTypeName, valueTypeName, Tail(tuples),
                              withEntry(map, entry.value.key, entry.value.value))

parseRecord(registry, keyTypeName, valueTypeName, chars) ==
    IF ~hasParser(registry, keyTypeName) THEN Thrown("No parser for type")
    ELSE IF ~hasParser(registry, valueTypeName) THEN Thrown("No parser for type")
    ELSE LET entryStrings == split(chars, registry.recordEntrySeparator)
             entryTuples == [k \in DOMAIN entryStrings |->
                                splitOnceOrZero(entryStrings[k],
                                                registry.recordKeyValueSeparator)]
         IN  fromEntries(keyTypeName, valueTypeName, entryTuples, [n \in {} |-> Undefined])

\* ParserRegistry.parse(typeName, text)
parse(registry, typeName, chars) ==
    IF hasParser(registry, typeName) THEN callParser(typeName, chars)
    ELSE LET parsedTypeName == parseTypeName(typeName)
         IN  IF ~parsedTypeName.ok THEN Thrown("Failed to read type name")
             ELSE IF parsedTypeName.desc.typeName \in ARRAY_BASE_TYPE_NAMES
                THEN parseArray(registry, typeParameterName(parsedTypeName.desc, 1), chars)
             ELSE IF parsedTypeName.desc.typeName \in RECORD_BASE_TYPE_NAMES
                THEN parseRecord(registry, typeParameterName(parsedTypeName.desc, 1),
                                 typeParameterName(parsedTypeName.desc, 2), chars)
             ELSE Thrown("No parser for type")

(***************************************************************************)
(* The argument vectors (process.argv after the runtime and script path).  *)
(***************************************************************************)
\* the tokens argv is built from: member names, the help keyword, a plain word and
\* one flag
Tokens ==
    {foo, bar, nameProp, version, helpWord, helpUpper, hello, flagX1, toStringProp}

\* the shapes of a flag token: a value, no "=", several "=", and the names debug
\* (which showHelp reads) and __proto__
FlagTokens == {flagX1, flagY, flagABC, flagDebug, flagProto}

RECURSIVE SeqsUpTo(_, _)
SeqsUpTo(S, n) ==
    IF n = 0 THEN {<<>>}
    ELSE LET shorter == SeqsUpTo(S, n - 1)
         IN  shorter \cup {Append(q, x) : q \in shorter, x \in S}

\* the worked examples of the specification that are longer than MaxArgs
ExampleArgv == {<<foo, bar, flagX1, hello>>, <<helpWord, foo, flagDebug>>}

\* up to two flags of any shape after the start of a path
FlagArgv ==
    {path \o tail : path \in {<<>>, <<helpWord>>, <<foo, bar>>, <<foo, nameProp>>},
                    tail \in SeqsUpTo(FlagTokens, 2)}

ArgvSet == SeqsUpTo(Tokens, MaxArgs) \cup ExampleArgv \cup FlagArgv

(***************************************************************************)
(* State.                                                                  *)
(***************************************************************************)
VARIABLES
    debugMode,       \* DEBUG_MODE
    rawArgs,         \* this.rawArgs
    instance,        \* Cli.instance: Null, or the bound Cli with its program (the live
                     \* tree), metaInterface and options
    pc,              \* where the process is
    argIndex,        \* the position of the for loop of runInternal in rawArgs
    context,         \* [kind |-> "live", path] or [kind |-> "showHelp"]
    contextDepth,
    contextFinal,
    positionalArgs,
    flags,
    recorded,        \* this.positionalArgs and this.flags, once assigned
    calls,           \* the invocations of callables of the live tree
    sink,            \* the values handed to valueHandler
    helpOut,         \* what showHelp rendered
    errors,          \* what failGracefully printed
    thrown,          \* the errors runInternal was rejected with
    handled,         \* the errors passed to an errorHandler given in the options
    returnValue,     \* what the awaited call completed with, Pending until then
    exitCode,        \* the status process.exit was called with, or -1
    runPromise,      \* the promise run() returned: "pending" or "fulfilled"
    registry,        \* the options of the ParserRegistry under test
    inTypeName,      \* the type name handed to parse / parseTypeName
    inText,          \* the text handed to parse
    inDescriptor,    \* the descriptor a type name was printed from
    outcome,         \* what the call returned or threw
    phase            \* "idle", "ready" (inputs drawn) or "done" (call made)

cliVars ==
    <<debugMode, rawArgs, instance, pc, argIndex, context, contextDepth, contextFinal,
      positionalArgs, flags, recorded, calls, sink, helpOut, errors, thrown, handled,
      returnValue, exitCode, runPromise>>

coerceVars == <<registry, inTypeName, inText, inDescriptor, outcome, phase>>

vars == <<cliVars, coerceVars>>

\* what no step of a run writes
fixedVars == <<debugMode, rawArgs, coerceVars>>

loopVars == <<argIndex, context, contextDepth, contextFinal, positionalArgs, flags>>
outVars ==
    <<recorded, calls, sink, helpOut, errors, thrown, handled, returnValue, exitCode,
      runPromise>>

Pending == [t |-> "pending"]
RootContext == [kind |-> "live", path |-> <<>>]
ShowHelpContext == [kind |-> "showHelp", path |-> <<>>]
NoFlags == [n \in {} |-> <<>>]

CommandNames == [demo |-> "demo", readme |-> "yourtoolname", helper |-> "helper"]

\* the state of a process before Cli.run
cliStart ==
    /\ instance = Null
    /\ pc = "start"
    /\ argIndex = 1
    /\ context = RootContext
    /\ contextDepth = 0
    /\ contextFinal = FALSE
    /\ positionalArgs = <<>>
    /\ flags = NoFlags
    /\ recorded = Undefined
    /\ calls = <<>>
    /\ sink = <<>>
    /\ helpOut = <<>>
    /\ errors = <<>>
    /\ thrown = <<>>
    /\ handled = <<>>
    /\ returnValue = Pending
    /\ exitCode = -1
    /\ runPromise = "pending"

\* no coercion under way
coerceIdle ==
    /\ registry = DefaultOptions
    /\ inTypeName = <<>>
    /\ inText = <<>>
    /\ inDescriptor = NoTypeName
    /\ outcome = Undefined
    /\ phase = "idle"

Init ==
    /\ \E env \in DebugEnv :
          /\ booleanFlagValue(env, FALSE).ok
          /\ debugMode = booleanFlagValue(env, FALSE).value
    /\ rawArgs \in ArgvSet
    /\ cliStart
    /\ coerceIdle

(***************************************************************************)
(* Failure paths.                                                          *)
(***************************************************************************)
\* failGracefully(ex): print the error and exit with status 1
failGracefully(ex) ==
    /\ errors' = Append(errors, ex)
    /\ exitCode' = 1
    /\ pc' = "exited"

\* runInternal throws ex inside handleFailure: in DEBUG_MODE the error goes to
\* this.errorHandler (failGracefully unless the options gave another, which returns);
\* otherwise the promise of handleFailure is rejected, and run() neither awaits nor
\* returns it
handleFailure(ex) ==
    /\ thrown' = Append(thrown, ex)
    /\ IF debugMode
          THEN IF instance.errorHandler = "default"
                  THEN /\ failGracefully(ex)
                       /\ UNCHANGED handled
                  ELSE /\ handled' = Append(handled, ex)
                       /\ pc' = "done"
                       /\ UNCHANGED <<errors, exitCode>>
          ELSE /\ pc' = "rejected"
               /\ UNCHANGED <<errors, handled, exitCode>>

\* the options errorHandler may be given as
ErrorHandlers == {"default", "injected"}

(***************************************************************************)
(* Cli.run(program, metaInterface, options): Cli.of binds the singleton,   *)
(* then run() enters runInternal.                                          *)
(***************************************************************************)
CliOf(program, autoHelp, errorHandler) ==
    [t |-> "Cli", program |-> Programs[program], metaInterface |-> MetaInterfaces[program],
     autoHelp |-> autoHelp, errorHandler |-> errorHandler,
     commandName |-> CommandNames[program]]

CliRun(program, autoHelp, errorHandler) ==
    /\ pc = "start"
    /\ instance = Null
    /\ instance' = CliOf(program, autoHelp, errorHandler)
    /\ pc' = "loop"
    /\ argIndex' = 1
    /\ context' = RootContext
    /\ contextDepth' = 0
    /\ contextFinal' = FALSE
    /\ positionalArgs' = <<>>
    /\ flags' = NoFlags
    /\ UNCHANGED <<fixedVars, outVars>>

\* a Cli.of that replaced the binding instead of failing
CliRunAgain_rebinds(program, autoHelp, errorHandler) ==
    /\ pc \in {"awaiting", "done", "rejected"}
    /\ instance # Null
    /\ instance' = CliOf(program, ~instance.autoHelp, errorHandler)
    /\ pc' = "loop"
    /\ argIndex' = 1
    /\ context' = RootContext
    /\ contextDepth' = 0
    /\ contextFinal' = FALSE
    /\ positionalArgs' = <<>>
    /\ flags' = NoFlags
    /\ UNCHANGED <<fixedVars, outVars>>

\* a later Cli.run, from user code running while the process is alive
CliRunAgain(program, autoHelp, errorHandler) ==
    /\ pc \in {"awaiting", "done", "rejected"}
    /\ instance # Null
    /\ failGracefully("Cli is a singleton, cannot create multiple instances")
    /\ UNCHANGED <<fixedVars, instance, loopVars, recorded, calls, sink, helpOut, thrown,
                   handled, returnValue, runPromise>>

(***************************************************************************)
(* One iteration of the for loop of runInternal.                           *)
(***************************************************************************)
arg == rawArgs[argIndex]

inLoop == pc = "loop" /\ argIndex <= Len(rawArgs)

\* a loop that took the help keyword at any depth
isHelpKeyword_anyDepth ==
    instance.autoHelp /\ toLowerCase(arg) = helpWord

isHelpKeyword ==
    instance.autoHelp /\ contextDepth = 0 /\ toLowerCase(arg) = helpWord

\* typeof context
typeofContext ==
    IF context.kind = "showHelp" THEN "function"
    ELSE IF context.path \in DOMAIN instance.program
        THEN instance.program[context.path]
    ELSE "function"

\* typeof context[arg] while the context is not final (a live object)
typeofContextProp == typeofMember(instance.program, context.path, arg)

\* a loop that looked members up whether or not the context is final
Descends_ignoresFinal == typeofContextProp # "undefined"

Descends == ~contextFinal /\ typeofContextProp # "undefined"

TokenHelp ==
    /\ inLoop
    /\ isHelpKeyword
    /\ contextDepth' = contextDepth + 1
    /\ context' = ShowHelpContext
    /\ contextFinal' = TRUE
    /\ argIndex' = argIndex + 1
    /\ UNCHANGED <<fixedVars, instance, pc, positionalArgs, flags, outVars>>

TokenDescend ==
    /\ inLoop
    /\ ~isHelpKeyword
    /\ Descends
    /\ IF typeofContextProp \in {"bigint", "boolean", "number", "string", "function"}
          THEN /\ context' = [kind |-> "live", path |-> Append(context.path, arg)]
               /\ contextDepth' = contextDepth + 1
               /\ contextFinal' = TRUE
       ELSE IF typeofContextProp = "object"
          THEN /\ context' = [kind |-> "live", path |-> Append(context.path, arg)]
               /\ contextDepth' = contextDepth + 1
               /\ UNCHANGED contextFinal
       ELSE UNCHANGED <<context, contextDepth, contextFinal>>
    /\ argIndex' = argIndex + 1
    /\ UNCHANGED <<fixedVars, instance, pc, positionalArgs, flags, outVars>>

\* arg.substring(FLAG_PREFIX.length).split('='): [name, ...values]
flagName(token) == split(substringFrom(token, Len(FLAG_PREFIX)), <<"=">>)[1]
flagValue(token) == join(Tail(split(substringFrom(token, Len(FLAG_PREFIX)), <<"=">>)), <<"=">>)

\* flags[name] = value on the object literal {}: the name __proto__ is the accessor
\* inherited from Object.prototype, whose setter ignores a string and adds no property
setFlag(map, key, value) ==
    IF key = protoName THEN map
    ELSE [n \in DOMAIN map \cup {key} |-> IF n = key THEN value ELSE map[n]]

\* a loop that also kept a flag token as a positional
TokenFlag_keptAsPositional ==
    /\ inLoop
    /\ ~isHelpKeyword
    /\ ~Descends
    /\ startsWith(arg, FLAG_PREFIX)
    /\ flags' = setFlag(flags, flagName(arg), flagValue(arg))
    /\ positionalArgs' = Append(positionalArgs, arg)
    /\ argIndex' = argIndex + 1
    /\ UNCHANGED <<fixedVars, instance, pc, context, contextDepth, contextFinal,
                   outVars>>

TokenFlag ==
    /\ inLoop
    /\ ~isHelpKeyword
    /\ ~Descends
    /\ startsWith(arg, FLAG_PREFIX)
    /\ flags' = setFlag(flags, flagName(arg), flagValue(arg))
    /\ argIndex' = argIndex + 1
    /\ UNCHANGED <<fixedVars, instance, pc, context, contextDepth, contextFinal,
                   positionalArgs, outVars>>

TokenPositional ==
    /\ inLoop
    /\ ~isHelpKeyword
    /\ ~Descends
    /\ ~startsWith(arg, FLAG_PREFIX)
    /\ positionalArgs' = Append(positionalArgs, arg)
    /\ argIndex' = argIndex + 1
    /\ UNCHANGED <<fixedVars, instance, pc, context, contextDepth, contextFinal,
                   flags, outVars>>


(***************************************************************************)
(* showHelp(...path): walk the metadata tree along the path, then render.  *)
(***************************************************************************)
isPropertyBag(metaContext) == metaContext.kind \in {"interface", "objectType"}

\* the context after context.members[component], or the error thrown
RECURSIVE helpContext(_, _, _)
helpContext(metaInterface, metaContext, components) ==
    IF components = <<>> THEN [ok |-> TRUE, context |-> metaContext, error |-> ""]
    ELSE IF ~isPropertyBag(metaContext)
        THEN [ok |-> FALSE, context |-> metaContext, error |-> "Invalid command path"]
    ELSE LET member == Append(metaContext.path, Head(components))
         IN  IF member \in DOMAIN metaInterface
                THEN helpContext(metaInterface,
                        [kind |-> CASE metaInterface[member].kind = "objectProperty" -> "objectType"
                                    [] metaInterface[member].kind = "scalarProperty" -> "scalarType"
                                    [] OTHER -> "method",
                         path |-> member],
                        Tail(components))
             ELSE IF Head(components) \in ObjectPrototype
                THEN helpContext(metaInterface, [kind |-> "inherited", path |-> member],
                                 Tail(components))
             ELSE [ok |-> FALSE, context |-> metaContext, error |-> "Unknown command or group"]

\* the names of the members of a property bag
memberNames(metaInterface, metaContext) ==
    IF isPropertyBag(metaContext)
        THEN {p[Len(p)] : p \in {q \in DOMAIN metaInterface :
                                    /\ Len(q) = Len(metaContext.path) + 1
                                    /\ SubSeq(q, 1, Len(q) - 1) = metaContext.path}}
        ELSE {}

Alphabet ==
    <<"a", "b", "c", "d", "e", "f", "g", "h", "i", "j", "k", "l", "m",
      "n", "o", "p", "q", "r", "s", "t", "u", "v", "w", "x", "y", "z">>

\* the place of a letter in the alphabet, whatever its case
letterRank(ch) == CHOOSE k \in DOMAIN Alphabet : Alphabet[k] = toLowerCase(<<ch>>)[1]

RECURSIVE localeCompare_reversed(_, _)
\* a comparison that put later names first
localeCompare_reversed(a, b) ==
    IF a = <<>> THEN (IF b = <<>> THEN 0 ELSE 1)
    ELSE IF b = <<>> THEN 0 - 1
    ELSE IF letterRank(a[1]) < letterRank(b[1]) THEN 1
    ELSE IF letterRank(a[1]) > letterRank(b[1]) THEN 0 - 1
    ELSE localeCompare_reversed(Tail(a), Tail(b))

RECURSIVE localeCompare(_, _)
\* a.localeCompare(b) for names of letters that differ in more than case
localeCompare(a, b) ==
    IF a = <<>> THEN (IF b = <<>> THEN 0 ELSE 0 - 1)
    ELSE IF b = <<>> THEN 1
    ELSE IF letterRank(a[1]) < letterRank(b[1]) THEN 0 - 1
    ELSE IF letterRank(a[1]) > letterRank(b[1]) THEN 1
    ELSE localeCompare(Tail(a), Tail(b))

RECURSIVE sortByName(_)
\* Object.values(members).sort((a, b) => a.name.localeCompare(b.name)), as names
sortByName(names) ==
    IF names = {} THEN <<>>
    ELSE LET first == CHOOSE n \in names : \A m \in names : localeCompare(n, m) <= 0
         IN  <<first>> \o sortByName(names \ {first})

\* the text cut to maxLength characters with an ellipsis
truncateText(text, maxLength) ==
    IF text.length <= maxLength THEN text
    ELSE [t |-> "string", words |-> text.words, length |-> maxLength, cut |-> TRUE]

SummaryLength == 60

\* summarizeMeta of a member of the metadata tree
summarizeMeta(member) ==
    IF member.summary # Undefined /\ member.summary.length > 0
        THEN truncateText(member.summary, SummaryLength)
    ELSE IF member.description # Undefined /\ member.description.length > 0
        THEN truncateText(member.description, SummaryLength)
    ELSE Undefined

\* the groups, the commands and the parameters of a help context
extractMetaItems(metaInterface, metaContext) ==
    LET members == sortByName(memberNames(metaInterface, metaContext))
        kindOf(name) == metaInterface[Append(metaContext.path, name)].kind
    IN  [groups |-> SelectSeq(members, LAMBDA name : kindOf(name) = "objectProperty"),
         commands |-> SelectSeq(members,
                         LAMBDA name : kindOf(name) \in {"scalarProperty", "method"}),
         parameters |-> IF metaContext.kind = "method"
                            THEN declaredParameters(metaInterface, metaContext.path)
                            ELSE <<>>]

\* a check that found no type nullable
isTypeNullable_never(parameter) == FALSE

isTypeNullable(parameter) == parameter.nullable

\* the summary the NAME section shows after the label, if any
nameSummary(metaInterface, metaContext) ==
    IF /\ metaContext.kind = "method"
       /\ metaInterface[metaContext.path].summary # Undefined
       /\ metaInterface[metaContext.path].summary.length > 0
        THEN metaInterface[metaContext.path].summary
        ELSE Undefined

\* the text of the DESCRIPTION section, if there is one
helpDescription(metaInterface, metaContext) ==
    IF metaContext.path # <<>> /\ metaContext.path \in DOMAIN metaInterface
        THEN metaInterface[metaContext.path].description
        ELSE Undefined

\* the USAGE line: the label, the placeholders and the parameter names
usageText(path, items) ==
    [label |-> path,
     group |-> Len(items.groups) > 0,
     bar |-> Len(items.groups) > 0 /\ Len(items.commands) > 0,
     command |-> Len(items.commands) > 0,
     parameters |-> [k \in DOMAIN items.parameters |->
                        [pname |-> items.parameters[k].pname,
                         bracketed |-> isTypeNullable(items.parameters[k])]]]

\* the rows of a GROUPS or COMMANDS table: name and one-line summary
tableRows(metaInterface, metaContext, names) ==
    [k \in DOMAIN names |->
        [name |-> names[k],
         summary |-> summarizeMeta(metaInterface[Append(metaContext.path, names[k])])]]

\* a showHelp that rendered the root whatever the path
helpPage_ofRoot(metaInterface, path, metaContext, flagMap) ==
    LET root == [kind |-> "interface", path |-> <<>>]
        items == extractMetaItems(metaInterface, root)
    IN  [label |-> path,
         context |-> root,
         listed |-> memberNames(metaInterface, root),
         parameters |-> <<>>,
         dump |-> FALSE,
         name |-> [label |-> path, summary |-> Undefined],
         usage |-> usageText(path, items),
         description |-> Undefined,
         groups |-> tableRows(metaInterface, root, items.groups),
         commands |-> tableRows(metaInterface, root, items.commands)]

\* what showHelp writes for a path that resolves
helpPage(metaInterface, path, metaContext, flagMap) ==
    LET items == extractMetaItems(metaInterface, metaContext)
    IN  [label |-> path,
         context |-> metaContext,
         listed |-> memberNames(metaInterface, metaContext),
         parameters |-> items.parameters,
         dump |-> <<"d", "e", "b", "u", "g">> \in DOMAIN flagMap
                    /\ flagMap[<<"d", "e", "b", "u", "g">>] # <<>>,
         name |-> [label |-> path, summary |-> nameSummary(metaInterface, metaContext)],
         usage |-> usageText(path, items),
         description |-> helpDescription(metaInterface, metaContext),
         groups |-> tableRows(metaInterface, metaContext, items.groups),
         commands |-> tableRows(metaInterface, metaContext, items.commands)]

(***************************************************************************)
(* The end of runInternal: Object.assign(this, {positionalArgs, flags}),   *)
(* then the switch on typeof context.                                      *)
(***************************************************************************)
\* a dispatch that did not wait for the end of the loop
loopOver_early == pc = "loop"

loopOver == pc = "loop" /\ argIndex > Len(rawArgs)

record == [positionalArgs |-> positionalArgs, flags |-> flags]

\* a dispatch that emitted the text of the value
liveValue_asText == [t |-> "string", at |-> context.path]

\* the live value a final context holds
liveValue == [t |-> typeofContext, at |-> context.path]

\* a dispatch that bound only the declared parameters
callArguments_declaredOnly(declared, positionals) ==
    SubSeq(positionals, 1, IF Len(declared) < Len(positionals)
                              THEN Len(declared) ELSE Len(positionals))

\* the arguments a callable is invoked with: context(...positionalArgs)
callArguments(declared, positionals) == positionals

\* a dispatch whose Object.assign wrote positionalArgs and flags on the live tree
DispatchScalar_assignsToProgram ==
    /\ loopOver
    /\ typeofContext \in {"bigint", "boolean", "number", "string"}
    /\ recorded' = record
    /\ instance' = [instance EXCEPT !.program =
                        (<<<<"f", "l", "a", "g", "s">>>> :> "object") @@ @]
    /\ sink' = Append(sink, liveValue)
    /\ pc' = "done"
    /\ runPromise' = "fulfilled"
    /\ UNCHANGED <<fixedVars, loopVars, calls, helpOut, errors, thrown, handled,
                   returnValue, exitCode>>

DispatchScalar ==
    /\ loopOver
    /\ typeofContext \in {"bigint", "boolean", "number", "string"}
    /\ recorded' = record
    /\ sink' = Append(sink, liveValue)
    /\ pc' = "done"
    /\ runPromise' = "fulfilled"
    /\ UNCHANGED <<fixedVars, instance, loopVars, calls, helpOut, errors, thrown, handled,
                   returnValue, exitCode>>

DispatchCall ==
    /\ loopOver
    /\ typeofContext = "function"
    /\ context.kind = "live"
    /\ recorded' = record
    /\ calls' = Append(calls,
                  [fn |-> context.path,
                   args |-> callArguments(declaredParameters(instance.metaInterface,
                                                            context.path),
                                          positionalArgs)])
    /\ pc' = "awaiting"
    /\ runPromise' = "fulfilled"
    /\ UNCHANGED <<fixedVars, instance, loopVars, sink, helpOut, errors, thrown, handled,
                   returnValue, exitCode>>

DispatchHelp ==
    /\ loopOver
    /\ context.kind = "showHelp"
    /\ recorded' = record
    /\ LET walk == helpContext(instance.metaInterface, [kind |-> "interface", path |-> <<>>],
                               positionalArgs)
       IN  IF walk.ok
              THEN /\ helpOut' = Append(helpOut,
                        helpPage(instance.metaInterface, positionalArgs, walk.context, flags))
                   /\ pc' = "done"
                   /\ UNCHANGED <<errors, thrown, handled, exitCode>>
              ELSE /\ handleFailure(walk.error)
                   /\ UNCHANGED helpOut
    /\ runPromise' = "fulfilled"
    /\ UNCHANGED <<fixedVars, instance, loopVars, calls, sink, returnValue>>

DispatchDefault ==
    /\ loopOver
    /\ typeofContext \notin {"bigint", "boolean", "number", "string", "function"}
    /\ recorded' = record
    /\ failGracefully("i dunno what to do")
    /\ UNCHANGED <<fixedVars, instance, loopVars, calls, sink, helpOut, thrown, handled,
                   returnValue, runPromise>>

\* what an invoked callable of the live tree may complete with
CallResults == {Undefined, Null, Str(<<"v">>)}

\* a completion whose result went to valueHandler without the test for null
CallReturns_emitsAlways(result) ==
    /\ pc = "awaiting"
    /\ returnValue' = result
    /\ sink' = Append(sink, result)
    /\ pc' = "done"
    /\ UNCHANGED <<fixedVars, instance, loopVars, recorded, calls, helpOut,
                   errors, thrown, handled, exitCode, runPromise>>

\* the awaited call completes: a non-nil result goes to valueHandler
CallReturns(result) ==
    /\ pc = "awaiting"
    /\ returnValue' = result
    /\ sink' = IF ~isNil(result) THEN Append(sink, result) ELSE sink
    /\ pc' = "done"
    /\ UNCHANGED <<fixedVars, instance, loopVars, recorded, calls, helpOut,
                   errors, thrown, handled, exitCode, runPromise>>

\* the awaited call fails
CallThrows ==
    /\ pc = "awaiting"
    /\ handleFailure("UserCallableError")
    /\ UNCHANGED <<fixedVars, instance, loopVars, recorded, calls, sink, helpOut,
                   returnValue, runPromise>>

\* what the runtime does with the rejected promise nobody observes: older runtimes
\* print a warning and go on, newer ones end the process with status 1
RejectionModes == {"warn", "throw"}

UnhandledRejection(mode) ==
    /\ pc = "rejected"
    /\ IF mode = "throw"
          THEN /\ pc' = "exited"
               /\ exitCode' = 1
          ELSE /\ pc' = "done"
               /\ UNCHANGED exitCode
    /\ UNCHANGED <<fixedVars, instance, loopVars, recorded, calls, sink, helpOut,
                   errors, thrown, handled, returnValue, runPromise>>

Next ==
    \/ \E program \in DOMAIN Programs, autoHelp \in BOOLEAN, errorHandler \in ErrorHandlers :
          CliRun(program, autoHelp, errorHandler)
    \/ \E program \in DOMAIN Programs, autoHelp \in BOOLEAN, errorHandler \in ErrorHandlers :
          CliRunAgain(program, autoHelp, errorHandler)
    \/ TokenHelp
    \/ TokenDescend
    \/ TokenFlag
    \/ TokenPositional
    \/ DispatchScalar
    \/ DispatchCall
    \/ DispatchHelp
    \/ DispatchDefault
    \/ \E result \in CallResults : CallReturns(result)
    \/ CallThrows
    \/ \E mode \in RejectionModes : UnhandledRejection(mode)

Spec == Init /\ [][Next]_vars


(***************************************************************************)
(* Properties of the resolver.                                             *)
(***************************************************************************)
tree == instance.program

isFlagToken(token) == startsWith(token, FLAG_PREFIX)
isPlainToken(token) == ~startsWith(token, FLAG_PREFIX)

started == pc \notin {"start", "loop"}

\* the prefixes of rawArgs that are the path of a method of the bound tree
MethodPrefixes ==
    {k \in 1..Len(rawArgs) :
        /\ SubSeq(rawArgs, 1, k) \in DOMAIN tree
        /\ tree[SubSeq(rawArgs, 1, k)] = "function"}

methodPrefix == CHOOSE k \in MethodPrefixes : TRUE

tokensAfter(k) == SubSeq(rawArgs, k + 1, Len(rawArgs))

\* C1: an argv that names a path of groups ending at a method, followed by flag
\* tokens and plain tokens, invokes that method exactly once (and nothing before the
\* loop is over) with exactly the plain tokens in their order; every flag token is
\* recorded in the flag mapping and none is passed to the method.
C1_MethodGetsThePlainTokens ==
    (instance # Null /\ MethodPrefixes # {}) =>
        /\ ~started => calls = <<>>
        /\ started =>
            /\ calls = <<[fn |-> SubSeq(rawArgs, 1, methodPrefix),
                          args |-> SelectSeq(tokensAfter(methodPrefix), isPlainToken)]>>
            /\ \A k \in (methodPrefix + 1)..Len(rawArgs) :
                  isFlagToken(rawArgs[k]) =>
                      /\ flagName(rawArgs[k]) \in DOMAIN recorded.flags
                      /\ \A j \in DOMAIN calls[1].args : calls[1].args[j] # rawArgs[k]
            /\ rawArgs = <<foo, bar, flagX1, hello>> =>
                  /\ calls[1].args = <<hello>>
                  /\ recorded.flags = (<<"x">> :> <<"1">>)

C1_Witness ==
    /\ pc = "done"
    /\ rawArgs = <<foo, bar, flagX1, hello>>
    /\ calls = <<[fn |-> <<foo, bar>>, args |-> <<hello>>]>>
    /\ recorded.flags = (<<"x">> :> <<"1">>)

helpFirst ==
    /\ instance # Null
    /\ instance.autoHelp
    /\ rawArgs # <<>>
    /\ toLowerCase(rawArgs[1]) = helpWord

\* C2 as stated: with auto-help, after a first token that is the help keyword every
\* following token is part of the help path and none is a flag; help is rendered for
\* the metadata member at that path and no callable of the live tree is invoked.
C2_AllFollowingTokensArePath ==
    (helpFirst /\ started) =>
        /\ recorded.flags = NoFlags
        /\ calls = <<>>
        /\ Tail(rawArgs) \in DOMAIN tree =>
              /\ Len(helpOut) = 1
              /\ helpOut[1].label = Tail(rawArgs)
              /\ helpOut[1].context.path = Tail(rawArgs)

\* C2 amended: the following tokens that are not flag-shaped form the help path, the
\* flag-shaped ones are handled as flags (they are the only source of the entries of
\* the flag mapping); when the path names a member of the
\* metadata tree help is rendered once for that member, listing its children; no
\* callable of the live tree is invoked.
C2_PlainFollowingTokensArePath ==
    (helpFirst /\ started) =>
        LET path == SelectSeq(Tail(rawArgs), isPlainToken)
        IN  /\ calls = <<>>
            /\ sink = <<>>
            /\ recorded.positionalArgs = path
            /\ \A n \in DOMAIN recorded.flags :
                  \E k \in 2..Len(rawArgs) :
                      /\ isFlagToken(rawArgs[k])
                      /\ flagName(rawArgs[k]) = n
                      /\ flagValue(rawArgs[k]) = recorded.flags[n]
            /\ path \in DOMAIN instance.metaInterface =>
                  /\ Len(helpOut) = 1
                  /\ helpOut[1].label = path
                  /\ helpOut[1].context.path = path
                  /\ helpOut[1].context.kind =
                        (CASE path = <<>> -> "interface"
                           [] path # <<>> /\ tree[path] = "object" -> "objectType"
                           [] path # <<>> /\ tree[path] = "function" -> "method"
                           [] OTHER -> "scalarType")
                  /\ helpOut[1].listed =
                        {q[Len(q)] : q \in {r \in DOMAIN instance.metaInterface :
                            Len(r) = Len(path) + 1 /\ SubSeq(r, 1, Len(path)) = path}}
                  /\ thrown = <<>>

C2_Witness ==
    /\ pc = "done"
    /\ rawArgs = <<helpWord, foo, flagDebug>>
    /\ instance.program = DemoProgram
    /\ Len(helpOut) = 1
    /\ helpOut[1].context = [kind |-> "objectType", path |-> <<foo>>]
    /\ bar \in helpOut[1].listed
    /\ recorded.flags # NoFlags
    /\ calls = <<>>

\* C3: when the input ends while the resolver is still Navigating (the context is the
\* root or a group), help is rendered for that group and the run does not fail.
C3_ImplicitHelpForGroup ==
    (started /\ ~contextFinal) =>
        /\ Len(helpOut) = 1
        /\ helpOut[1].context.path = context.path
        /\ errors = <<>>
        /\ thrown = <<>>
        /\ exitCode = -1

\* a Navigating token that matches no member, is not flag-shaped and is not the help
\* keyword
unmatchedToken ==
    /\ inLoop
    /\ ~contextFinal
    /\ ~isHelpKeyword
    /\ typeofContextProp = "undefined"
    /\ isPlainToken(arg)

\* C4: a Navigating token that matches nothing, is not flag-shaped and is not consumed
\* as help makes the run fail with an error; it is not accumulated as a positional.
C4_UnmatchedTokenFails ==
    [][unmatchedToken =>
          /\ pc' \in {"rejected", "exited"}
          /\ Len(thrown') + Len(errors') > Len(thrown) + Len(errors)
          /\ positionalArgs' = positionalArgs]_vars

\* C5: whatever the number of declared parameters, a callable is invoked with
\* exactly the accumulated positionals, and the only error after a call is one the
\* callable itself raised.
C5_ArityNotEnforced ==
    (started /\ context.kind = "live" /\ typeofContext = "function") =>
        /\ Len(calls) = 1
        /\ calls[1].fn = context.path
        /\ calls[1].args = positionalArgs
        /\ \A k \in DOMAIN thrown : thrown[k] = "UserCallableError"
        /\ \A k \in DOMAIN errors :
              errors[k] \in {"UserCallableError",
                             "Cli is a singleton, cannot create multiple instances"}

C5_Witness ==
    /\ pc = "done"
    /\ Len(calls) = 1
    /\ calls[1].fn = <<version>>
    /\ declaredParameters(instance.metaInterface, <<version>>) = <<>>
    /\ calls[1].args = <<hello>>
    /\ thrown = <<>>
    /\ errors = <<>>

\* C6: once a live tree is bound, the binding (program, metadata, options) never
\* changes: a later attempt to bind prints the singleton error and exits.
C6_FirstBindingStands ==
    [][instance # Null =>
          /\ instance' = instance
          /\ (Len(errors') > Len(errors)
              /\ errors'[Len(errors')] = "Cli is a singleton, cannot create multiple instances")
                => (pc' = "exited" /\ exitCode' = 1)]_vars

C6_Witness ==
    /\ instance # Null
    /\ pc = "exited"
    /\ errors # <<>>
    /\ errors[Len(errors)] = "Cli is a singleton, cannot create multiple instances"


(***************************************************************************)
(* ParserRegistry.parse as a step: the inputs are drawn, then the call is  *)
(* made.                                                                   *)
(***************************************************************************)
MaxText == 3
MaxDepth == 4

\* the text of a descriptor under the grammar Identifier | Identifier<P1,...,Pn>
RECURSIVE printTypeName(_)
printTypeName(desc) ==
    IF desc.typeParameters = <<>> THEN desc.typeName
    ELSE desc.typeName \o <<"<">>
            \o join([k \in DOMAIN desc.typeParameters |->
                        printTypeName(desc.typeParameters[k])], <<",">>)
            \o <<">">>

\* the text of the array shorthand Identifier[]
printShorthand(desc) == desc.typeParameters[1].typeName \o <<"[", "]">>

Leaf(typeName) == GenericTypeName(typeName, <<>>)
Generic1(typeName, p) == GenericTypeName(typeName, <<Leaf(p)>>)
Generic2(typeName, p, q) == GenericTypeName(typeName, <<Leaf(p), Leaf(q)>>)

fooTypeName == <<"F", "o", "o">>

ElementTypeNames == BuiltinParsers \cup {yesnoName, fooTypeName}

\* the type names parse is called with
TypeNames ==
    BuiltinParsers \cup {yesnoName, fooTypeName, ArrayName, RecordName, toStringProp}
    \cup {printShorthand(Generic1(ArrayName, e)) : e \in ElementTypeNames}
    \cup {printTypeName(Generic1(ArrayName, e)) : e \in ElementTypeNames}
    \cup {printTypeName(Generic1(ReadonlyPrefix \o ArrayName, numberName)),
          printTypeName(Generic1(SetName, stringName)),
          printTypeName(Generic1(RecordName, stringName)),
          printTypeName(Generic2(RecordName, stringName, numberName)),
          printTypeName(Generic2(RecordName, numberName, stringName)),
          printTypeName(Generic2(MapName, stringName, booleanName)),
          printTypeName(Generic2(RecordName, stringName, fooTypeName)),
          RecordName \o <<"<">> \o stringName \o <<",", " ">> \o numberName \o <<">">>,
          printShorthand(Generic1(ArrayName, toStringProp)),
          printTypeName(Generic2(RecordName, fooTypeName, stringName)),
          printTypeName(Generic1(fooTypeName, stringName)),
          numberName \o <<"[">>}

TextChars == {"a", "1", "2", ",", "="}

\* the worked examples of the specification and the yes/no vocabulary
ExampleTexts ==
    {<<"a", "=", "1", ",", "b", "=", "2">>, <<"1", ",", "2", ",", "3">>,
     <<"y", "e", "s">>, <<"Y", "E", "S">>, <<"o", "n">>, <<"T", "r", "u", "e">>,
     <<"n", "o">>, <<"0">>, <<"o", "f", "f">>, <<"f", "a", "l", "s", "e">>,
     <<"m", "a", "y", "b", "e">>}

Texts == SeqsUpTo(TextChars, MaxText) \cup ExampleTexts

InitCoerce ==
    /\ debugMode = FALSE
    /\ rawArgs = <<>>
    /\ cliStart
    /\ registry \in RegistryOptions
    /\ inTypeName \in TypeNames
    /\ inText \in Texts
    /\ inDescriptor = NoTypeName
    /\ outcome = Undefined
    /\ phase = "ready"

Parse ==
    /\ phase = "ready"
    /\ outcome' = parse(registry, inTypeName, inText)
    /\ phase' = "done"
    /\ UNCHANGED <<cliVars, registry, inTypeName, inText, inDescriptor>>

NextCoerce == Parse

SpecCoerce == InitCoerce /\ [][NextCoerce]_vars

(***************************************************************************)
(* ParserRegistry.parseRecord as a step, with the key and value type names *)
(* it is handed.                                                           *)
(***************************************************************************)
RecordDescriptors ==
    {GenericTypeName(RecordName, <<Leaf(k), Leaf(v)>>) :
        k \in {stringName, numberName}, v \in {stringName, numberName, bigintName}}

\* texts with entries that coerce to the same key, for both separator configurations
RecordTexts ==
    {<<"a", "=", "1", ",", "a", "=", "2">>, <<"a", "=", "1", ",", "a">>,
     <<"a", ",", "a", "=", "1">>, <<"1", "=", "a", ",", "0", "1", "=", "2">>,
     <<"a", ",", "1", "=", "a", ",", "2">>, <<"a", ",", "1", "=", "a">>,
     <<"1", ",", "a", "=", "0", "1", ",", "2">>}

InitRecord ==
    /\ debugMode = FALSE
    /\ rawArgs = <<>>
    /\ cliStart
    /\ registry \in RegistryOptions
    /\ inTypeName = <<>>
    /\ inText \in Texts \cup RecordTexts
    /\ inDescriptor \in RecordDescriptors
    /\ outcome = Undefined
    /\ phase = "ready"

ParseRecord ==
    /\ phase = "ready"
    /\ outcome' = parseRecord(registry, inDescriptor.typeParameters[1].typeName,
                              inDescriptor.typeParameters[2].typeName, inText)
    /\ phase' = "done"
    /\ UNCHANGED <<cliVars, registry, inTypeName, inText, inDescriptor>>

NextRecord == ParseRecord

SpecRecord == InitRecord /\ [][NextRecord]_vars

(***************************************************************************)
(* splitOnceOrZero as a step, under registries whose key/value separator   *)
(* has one or two characters.                                              *)
(***************************************************************************)
KeyValueSeparators == {<<"=">>, <<":", ":">>, <<":", "=">>}

SplitChars == {"a", ":", "="}

InitSplit ==
    /\ debugMode = FALSE
    /\ rawArgs = <<>>
    /\ cliStart
    /\ registry \in {[DefaultOptions EXCEPT !.recordKeyValueSeparator = separator] :
                        separator \in KeyValueSeparators}
    /\ inTypeName = <<>>
    /\ inText \in SeqsUpTo(SplitChars, MaxText)
    /\ inDescriptor = NoTypeName
    /\ outcome = Undefined
    /\ phase = "ready"

SplitOnce ==
    /\ phase = "ready"
    /\ outcome' = Returned([t |-> "array",
                            items |-> splitOnceOrZero(inText,
                                                      registry.recordKeyValueSeparator)])
    /\ phase' = "done"
    /\ UNCHANGED <<cliVars, registry, inTypeName, inText, inDescriptor>>

NextSplit == SplitOnce

SpecSplit == InitSplit /\ [][NextSplit]_vars

(***************************************************************************)
(* readTypeNameFromReader on a fresh StringReader over any short text of   *)
(* the characters the reader tells apart, and over longer generic names.   *)
(***************************************************************************)
ReaderChars == {"K", "1", " ", "<", ",", ">", "!"}

ReaderExamples ==
    {<<"K", "<", "K", ">", ",", "K">>,
     <<"K", "<", "K", "<", "K", ">", ",", "K", ">">>,
     <<"K", "<", "K", ">", "K">>,
     <<"K", "1", " ", "<", " ", "K", " ", ">">>}

InitReader ==
    /\ debugMode = FALSE
    /\ rawArgs = <<>>
    /\ cliStart
    /\ registry = DefaultOptions
    /\ inTypeName \in SeqsUpTo(ReaderChars, MaxText) \cup ReaderExamples
    /\ inText = <<>>
    /\ inDescriptor = NoTypeName
    /\ outcome = Undefined
    /\ phase = "ready"

ReadTypeName ==
    /\ phase = "ready"
    /\ outcome' = readTypeNameFromReader(inTypeName, 0)
    /\ phase' = "done"
    /\ UNCHANGED <<cliVars, registry, inTypeName, inText, inDescriptor>>

NextReader == ReadTypeName

SpecReader == InitReader /\ [][NextReader]_vars

(***************************************************************************)
(* parseTypeName on the text printed from a descriptor.                    *)
(***************************************************************************)
leafK == <<"K">>
leafV == <<"V">>

LeafNames == {leafK, leafV}

\* the descriptors of nesting depth at most depth: an array-like generic of one
\* parameter (Set, and Array for the shorthand) or a record-like generic of two
\* (Map), one of which is a leaf
RECURSIVE Descriptors(_)
Descriptors(depth) ==
    IF depth = 0 THEN {Leaf(n) : n \in LeafNames}
    ELSE LET inner == Descriptors(depth - 1)
             leaves == Descriptors(0)
         IN  inner
             \cup {GenericTypeName(ArrayName, <<p>>) : p \in leaves}
             \cup {GenericTypeName(SetName, <<p>>) : p \in inner}
             \cup {GenericTypeName(MapName, <<p, q>>) : p \in leaves, q \in inner}
             \cup {GenericTypeName(MapName, <<p, q>>) : p \in inner, q \in leaves}

InitTypeName ==
    /\ debugMode = FALSE
    /\ rawArgs = <<>>
    /\ cliStart
    /\ registry = DefaultOptions
    /\ inTypeName = <<>>
    /\ inText = <<>>
    /\ inDescriptor \in Descriptors(MaxDepth)
    /\ outcome = Undefined
    /\ phase = "ready"

\* parse the generic form of the descriptor
ReadGeneric ==
    /\ phase = "ready"
    /\ inTypeName' = printTypeName(inDescriptor)
    /\ outcome' = parseTypeName(printTypeName(inDescriptor))
    /\ phase' = "done"
    /\ UNCHANGED <<cliVars, registry, inText, inDescriptor>>

\* parse the array shorthand of an Array of a plain name
ReadShorthand ==
    /\ phase = "ready"
    /\ inDescriptor.typeName = ArrayName
    /\ Len(inDescriptor.typeParameters) = 1
    /\ inDescriptor.typeParameters[1].typeParameters = <<>>
    /\ inTypeName' = printShorthand(inDescriptor)
    /\ outcome' = parseTypeName(printShorthand(inDescriptor))
    /\ phase' = "done"
    /\ UNCHANGED <<cliVars, registry, inText, inDescriptor>>

NextTypeName == ReadGeneric \/ ReadShorthand

SpecTypeName == InitTypeName /\ [][NextTypeName]_vars


(***************************************************************************)
(* Properties of the coercion registry and of the type-name reader.        *)
(***************************************************************************)
\* C7: coerce("boolean", v) is true for yes, 1, on, true in any letter case, false
\* for no, 0, off, false, and fails for every other text.
C7_BooleanVocabulary ==
    (phase = "done" /\ inTypeName = booleanName) =>
        /\ toLowerCase(inText) \in FLAG_YES_VALUES => outcome = Returned(Bool(TRUE))
        /\ inText \in FLAG_NO_VALUES => outcome = Returned(Bool(FALSE))
        /\ toLowerCase(inText) \notin (FLAG_YES_VALUES \cup FLAG_NO_VALUES) => ~outcome.ok

recordOfStringToNumber == printTypeName(Generic2(RecordName, stringName, numberName))

\* C8: with the default separators, coerce("Record<string,number>", text) yields the
\* mapping from each key to its value coerced as a number: "a=1,b=2" yields
\* {a: 1, b: 2}, and the entry "a" without separator yields {a: undefined}.
C8_RecordOfKeyAndValueType ==
    (phase = "done" /\ registry = DefaultOptions /\ inTypeName = recordOfStringToNumber) =>
        /\ outcome.ok
        /\ outcome.value.t = "object"
        /\ \A key \in DOMAIN outcome.value.map :
              outcome.value.map[key].t \in {"number", "undefined"}
        /\ inText = <<"a", "=", "1", ",", "b", "=", "2">> =>
              outcome.value.map = (<<"a">> :> Num(1)) @@ (<<"b">> :> Num(2))
        /\ inText = <<"a">> => outcome.value.map = (<<"a">> :> Undefined)

\* the coercer of elementTypeName applied, in order, to each piece of the text split
\* on the array separator
arrayOfPieces(elementTypeName, chars) ==
    LET pieces == split(chars, registry.arraySeparator)
        coerced == [k \in DOMAIN pieces |-> applyParser(elementTypeName, pieces[k])]
    IN  IF \A k \in DOMAIN coerced : coerced[k].ok
            THEN Returned([t |-> "array",
                           items |-> [k \in DOMAIN coerced |-> coerced[k].value]])
            ELSE coerced[CHOOSE k \in DOMAIN coerced :
                            /\ ~coerced[k].ok
                            /\ \A j \in 1..(k - 1) : coerced[j].ok]

\* C9: for every registered element type T and every text, coerce("T[]", text) and
\* coerce("Array<T>", text) give the same result: T's coercer applied in order to
\* each piece of the text split on the array separator (the failure of the first
\* piece T's coercer rejects, when there is one).
C9_ShorthandIsArrayOf ==
    phase = "done" =>
        \A T \in registry.parsers :
            /\ inTypeName = T \o <<"[", "]">> =>
                  /\ outcome = parse(registry, ArrayName \o <<"<">> \o T \o <<">">>, inText)
                  /\ outcome = arrayOfPieces(T, inText)
            /\ inTypeName = ArrayName \o <<"<">> \o T \o <<">">> =>
                  /\ outcome = parse(registry, T \o <<"[", "]">>, inText)
                  /\ outcome = arrayOfPieces(T, inText)

C9_Witness ==
    /\ phase = "done"
    /\ registry = DefaultOptions
    /\ inTypeName = numberName \o <<"[", "]">>
    /\ inText = <<"1", ",", "2", ",", "3">>
    /\ outcome = Returned([t |-> "array", items |-> <<Num(1), Num(2), Num(3)>>])

\* C10: parsing the text printed from a descriptor of nesting depth 0 to 4 returns
\* the descriptor: the same base name and the same type parameters, in order, at
\* every level.
C10_PrintedDescriptorReadsBack ==
    phase = "done" => (outcome.ok /\ outcome.desc = inDescriptor)

(***************************************************************************)
(* Properties of token classification and dispatch.                        *)
(***************************************************************************)
\* the token the loop is about to record as a flag
flagStep ==
    /\ inLoop
    /\ ~isHelpKeyword
    /\ ~Descends
    /\ isFlagToken(arg)

\* the text of a flag token between the prefix and the first "="
textBeforeEquals(token) ==
    LET rest == substringFrom(token, Len(FLAG_PREFIX))
        pos == indexOf(rest, <<"=">>)
    IN  IF pos < 0 THEN rest ELSE substring(rest, 0, pos)

\* the text of a flag token after the first "=", empty when there is none
textAfterEquals(token) ==
    LET rest == substringFrom(token, Len(FLAG_PREFIX))
        pos == indexOf(rest, <<"=">>)
    IN  IF pos < 0 THEN <<>> ELSE substringFrom(rest, pos + 1)

\* C11: when the loop takes a flag-shaped token, the flag mapping afterwards holds,
\* under the text between the prefix and the first "=", everything after that first
\* "=" (further "=" included), and the empty text when the token has no "=".
C11_FlagNameAndValue ==
    [][flagStep =>
          /\ textBeforeEquals(arg) \in DOMAIN flags'
          /\ flags'[textBeforeEquals(arg)] = textAfterEquals(arg)]_vars

singletonError == "Cli is a singleton, cannot create multiple instances"

\* C12: an error raised during a run (by the resolution, by showHelp or by the invoked
\* callable) is, without DEBUG_MODE, printed by the top-level handler, which ends the
\* process with a non-zero status; with DEBUG_MODE it is passed exactly once to the
\* errorHandler of the options, and to nothing else.
C12_ErrorsReachTheHandler ==
    /\ thrown # <<>> =>
          IF ~debugMode
             THEN /\ errors # <<>>
                  /\ errors[1] = thrown[1]
                  /\ pc = "exited"
                  /\ exitCode >= 1
          ELSE IF instance.errorHandler = "injected"
             THEN handled = thrown
          ELSE errors = thrown /\ handled = <<>>
    /\ (instance # Null /\ debugMode /\ instance.errorHandler = "injected") =>
          \A k \in DOMAIN errors : errors[k] = singletonError

\* C13: once the trees are bound, no step of a run (navigation, classification,
\* dispatch, help rendering, failure) changes the live tree or the metadata tree:
\* both stay the trees that were supplied, member for member.
C13_TreesUnchanged ==
    [][instance # Null =>
          /\ instance'.program = instance.program
          /\ instance'.metaInterface = instance.metaInterface
          /\ \E name \in DOMAIN Programs :
                /\ instance'.program = Programs[name]
                /\ instance'.metaInterface = MetaInterfaces[name]]_vars

C13_Witness ==
    /\ pc = "done"
    /\ rawArgs = <<helpWord, foo, bar>>
    /\ Len(helpOut) = 1
    /\ instance.program = DemoProgram
    /\ instance.metaInterface = MetaInterfaceOf("demo")

\* C14: once the context is final (a scalar, a callable or showHelp), a token never
\* changes the context or the depth: a flag-shaped token goes to the flag mapping and
\* leaves the positionals alone, any other token (a member name of the terminal value
\* and the help keyword included) is appended to the positionals.
C14_FinalContextStays ==
    [][(inLoop /\ contextFinal) =>
          /\ context' = context
          /\ contextDepth' = contextDepth
          /\ contextFinal'
          /\ IF isFlagToken(arg)
                THEN /\ positionalArgs' = positionalArgs
                     /\ flags' = setFlag(flags, flagName(arg), flagValue(arg))
                ELSE /\ positionalArgs' = Append(positionalArgs, arg)
                     /\ flags' = flags]_vars

C14_Witness ==
    /\ pc = "awaiting"
    /\ rawArgs = <<version, helpWord, toStringProp>>
    /\ instance.autoHelp
    /\ context = [kind |-> "live", path |-> <<version>>]
    /\ calls = <<[fn |-> <<version>>, args |-> <<helpWord, toStringProp>>]>>

\* C15: the live context is always at a declared member of the metadata tree, and it
\* is final exactly when that member is a ScalarProperty or a Method (not final when
\* it is the root or an ObjectProperty); a name that is no declared member, such as
\* an inherited toString, never becomes the context.
C15_LockstepWithMetadata ==
    (instance # Null /\ context.kind = "live") =>
        /\ context.path \in DOMAIN instance.metaInterface
        /\ contextFinal <=>
              instance.metaInterface[context.path].kind \in {"scalarProperty", "method"}
        /\ ~contextFinal <=>
              instance.metaInterface[context.path].kind \in {"interface", "objectProperty"}

\* C16: a token switches the context to showHelp exactly when autoHelp is on, the
\* depth is 0 and the token is the help keyword in any letter case; a token that is
\* the help keyword with autoHelp off or at a depth above 0 is treated as any other
\* token: a descent when it names a member of a context that is not final, else a
\* positional.
C16_HelpOnlyAtDepthZero ==
    [][inLoop =>
          LET keyword == toLowerCase(arg) = helpWord
              recognised == instance.autoHelp /\ contextDepth = 0 /\ keyword
          IN  /\ (context' = ShowHelpContext /\ context # ShowHelpContext) => recognised
              /\ recognised =>
                    /\ context' = ShowHelpContext
                    /\ contextFinal'
                    /\ contextDepth' = 1
                    /\ UNCHANGED <<positionalArgs, flags>>
              /\ (keyword /\ ~recognised) =>
                    IF ~contextFinal /\ Append(context.path, arg) \in DOMAIN instance.program
                       THEN /\ context' = [kind |-> "live", path |-> Append(context.path, arg)]
                            /\ contextDepth' = contextDepth + 1
                            /\ UNCHANGED <<positionalArgs, flags>>
                       ELSE /\ positionalArgs' = Append(positionalArgs, arg)
                            /\ UNCHANGED <<context, contextDepth, contextFinal, flags>>]_vars

C16_Witness ==
    /\ pc = "awaiting"
    /\ instance.autoHelp
    /\ rawArgs = <<foo, helpWord, helpUpper>>
    /\ calls = <<[fn |-> <<foo, helpWord>>, args |-> <<helpUpper>>]>>
    /\ helpOut = <<>>

scalarTypes == {"bigint", "boolean", "number", "string"}

\* C17: when the final context is a scalar of the live tree, the run hands the value
\* sink that very value (same type, same member) exactly once, whatever flags and
\* positionals follow it, and invokes no callable and renders no help.
C17_ScalarEmittedOnce ==
    (started /\ context.kind = "live" /\ typeofContext \in scalarTypes) =>
        /\ context.path \in DOMAIN tree
        /\ sink = <<[t |-> tree[context.path], at |-> context.path]>>
        /\ calls = <<>>
        /\ helpOut = <<>>

C17_Witness ==
    /\ pc = "done"
    /\ instance.program = HelpProgram
    /\ rawArgs = <<foo, nameProp, flagX1>>
    /\ sink = <<[t |-> "number", at |-> <<foo, nameProp>>]>>
    /\ recorded.flags = (<<"x">> :> <<"1">>)

\* C18: when the final context is a callable of the live tree, the value sink is
\* empty until the call has completed; after it has, the sink holds the completed
\* result once if that result is neither null nor undefined and nothing otherwise;
\* a call that failed leaves the sink empty.
C18_ResultEmittedAfterCompletion ==
    (instance # Null /\ context.kind = "live" /\ typeofContext = "function") =>
        /\ returnValue = Pending => sink = <<>>
        /\ returnValue # Pending =>
              /\ pc \notin {"loop", "awaiting"}
              /\ Len(calls) = 1
              /\ sink = IF isNil(returnValue) THEN <<>> ELSE <<returnValue>>
        /\ thrown # <<>> => (returnValue = Pending /\ sink = <<>>)

C18_Witness ==
    /\ pc = "done"
    /\ rawArgs = <<version, hello>>
    /\ calls = <<[fn |-> <<version>>, args |-> <<hello>>]>>
    /\ returnValue = Str(<<"v">>)
    /\ sink = <<Str(<<"v">>)>>

\* a value of the live tree, as DispatchScalar hands it to the sink
isLiveValue(value) == "at" \in DOMAIN value

\* the terminal actions a run has performed so far
terminalActions == Len(SelectSeq(sink, isLiveValue)) + Len(calls) + Len(helpOut)

\* C19: a run performs at most one terminal action (a scalar emission, a call or a
\* help page), a callable is invoked at most once, and nothing of it happens before
\* every token has been classified and the positionals and flags have been recorded
\* on the Cli.
C19_OneTerminalAction ==
    /\ terminalActions <= 1
    /\ Len(calls) <= 1
    /\ (terminalActions > 0 \/ sink # <<>>) =>
          /\ argIndex = Len(rawArgs) + 1
          /\ recorded = [positionalArgs |-> positionalArgs, flags |-> flags]
          /\ Len(positionalArgs) + contextDepth <= Len(rawArgs)

C19_Witness ==
    /\ pc = "done"
    /\ rawArgs = <<foo, bar, hello>>
    /\ terminalActions = 1
    /\ calls = <<[fn |-> <<foo, bar>>, args |-> <<hello>>]>>
    /\ recorded = [positionalArgs |-> <<hello>>, flags |-> NoFlags]

(***************************************************************************)
(* Properties of the failures of the coercion registry.                    *)
(***************************************************************************)
withoutSpaces(chars) == SelectSeq(chars, LAMBDA c : c # " ")

\* the base name and the type parameters a type name has under the grammar
\* Identifier[] | Identifier | Identifier<P1,...,Pn> (parameters that are names)
claimedBase(typeName) ==
    IF endsWith(typeName, <<"[", "]">>) THEN ArrayName
    ELSE IF indexOf(typeName, <<"<">>) < 0 THEN typeName
    ELSE substring(typeName, 0, indexOf(typeName, <<"<">>))

claimedParameters(typeName) ==
    IF endsWith(typeName, <<"[", "]">>)
        THEN <<substring(typeName, 0, Len(typeName) - 2)>>
    ELSE IF indexOf(typeName, <<"<">>) < 0 THEN <<>>
    ELSE LET inner == substring(typeName, indexOf(typeName, <<"<">>) + 1,
                                lastIndexOf(typeName, <<">">>))
             pieces == split(inner, <<",">>)
         IN  [k \in DOMAIN pieces |-> withoutSpaces(pieces[k])]

\* the type name has no registered coercer and is neither an array-like name with a
\* registered element type nor a record-like name with registered key and value types
claimedNoCoercer(typeName) ==
    LET base == claimedBase(typeName)
        parameters == claimedParameters(typeName)
        registered(k) == k <= Len(parameters) /\ parameters[k] \in registry.parsers
    IN  /\ typeName \notin registry.parsers
        /\ \/ base \notin (ARRAY_BASE_TYPE_NAMES \cup RECORD_BASE_TYPE_NAMES)
           \/ base \in ARRAY_BASE_TYPE_NAMES /\ ~registered(1)
           \/ base \in RECORD_BASE_TYPE_NAMES /\ ~(registered(1) /\ registered(2))

\* C20: for a well-formed type name, coerce fails with "No parser for type" exactly
\* when the name is not registered and is not an array-like or record-like name whose
\* element, key and value types are registered; a registered name is coerced by its
\* registered function.
C20_NoCoercerExactlyWhenUnregistered ==
    (phase = "done" /\ parseTypeName(inTypeName).ok) =>
        /\ outcome = Thrown("No parser for type") <=> claimedNoCoercer(inTypeName)
        /\ inTypeName \in registry.parsers => outcome = applyParser(inTypeName, inText)

(***************************************************************************)
(* Properties of record coercion.                                          *)
(***************************************************************************)
\* the entries of the text: the pieces between entry separators
entryPieces == split(inText, registry.recordEntrySeparator)

entryHasValue(piece) == indexOf(piece, registry.recordKeyValueSeparator) >= 0

entryKeyText(piece) ==
    IF entryHasValue(piece)
        THEN substring(piece, 0, indexOf(piece, registry.recordKeyValueSeparator))
        ELSE piece

entryValueText(piece) ==
    substringFrom(piece, indexOf(piece, registry.recordKeyValueSeparator)
                            + Len(registry.recordKeyValueSeparator))

\* the key and the value an entry contributes under key type K and value type V
entryKey(K, piece) == applyParser(K, entryKeyText(piece))
entryValue(V, piece) ==
    IF entryHasValue(piece) THEN applyParser(V, entryValueText(piece))
    ELSE Returned(Undefined)

\* C21: parseRecord fails only when a key, or a value that is present, is rejected by
\* its coercer; otherwise the mapping has exactly the keys the key coercer makes of
\* the entries, and each key holds what its last entry gives: undefined when that
\* entry has no key/value separator (the value coercer is not run), the coerced
\* value otherwise.
C21_RecordEntries ==
    phase = "done" =>
        LET K == inDescriptor.typeParameters[1].typeName
            V == inDescriptor.typeParameters[2].typeName
            pieces == entryPieces
            allCoerce == \A k \in DOMAIN pieces :
                            entryKey(K, pieces[k]).ok /\ entryValue(V, pieces[k]).ok
            keyName(k) == propertyKey(entryKey(K, pieces[k]).value)
            lastWith(n) == CHOOSE k \in DOMAIN pieces :
                              /\ keyName(k) = n
                              /\ \A j \in DOMAIN pieces : keyName(j) = n => j <= k
        IN  /\ outcome.ok <=> allCoerce
            /\ outcome.ok =>
                  /\ outcome.value.t = "object"
                  /\ DOMAIN outcome.value.map = {keyName(k) : k \in DOMAIN pieces}
                  /\ \A n \in DOMAIN outcome.value.map :
                        outcome.value.map[n] = entryValue(V, pieces[lastWith(n)]).value

C21_Witness ==
    /\ phase = "done"
    /\ registry = DefaultOptions
    /\ inDescriptor = GenericTypeName(RecordName, <<Leaf(stringName), Leaf(bigintName)>>)
    /\ inText = <<"a", "=", "1", ",", "a">>
    /\ outcome = Returned([t |-> "object", map |-> (<<"a">> :> Undefined)])

\* C22: splitting an entry once on the key/value separator, of one character or
\* more: when the entry contains the separator the result is [left, right] with
\* left + separator + right the entry and no separator in left; when it does not,
\* the result is [entry].
C22_SplitOnceLossless ==
    phase = "done" =>
        LET separator == registry.recordKeyValueSeparator
            parts == outcome.value.items
        IN  IF indexOf(inText, separator) >= 0
               THEN /\ Len(parts) = 2
                    /\ parts[1] \o separator \o parts[2] = inText
                    /\ indexOf(parts[1], separator) < 0
               ELSE parts = <<inText>>

\* the characters the grammar of type names is written with
GrammarChars == LowerLetters \cup UpperLetters \cup Digits \cup {"_", "$", " ", "<", ",", ">"}

RECURSIVE lastBeforeSpaces(_, _)
\* the character before position k (1-based) that is no space, "" when there is none
lastBeforeSpaces(str, k) ==
    IF k <= 1 THEN ""
    ELSE IF str[k - 1] = " " THEN lastBeforeSpaces(str, k - 1)
    ELSE str[k - 1]

\* a digit where a name starts: at the start of the text or of a type parameter
digitStartsName(str, k) ==
    /\ str[k] \in Digits
    /\ lastBeforeSpaces(str, k) \in {"", "<", ","}

\* an identifier character after the name before it was ended by a space or by ">"
identifierAfterName(str, k) ==
    /\ isIdentifierChar(str[k], 1)
    /\ k > 1
    /\ \/ str[k - 1] = ">"
       \/ str[k - 1] = " " /\ lastBeforeSpaces(str, k) \notin {"", "<", ","}

\* the read ended: with a descriptor, or with the grammar error
readerReturnsOrFails ==
    \/ outcome.ok /\ DOMAIN outcome.desc = {"typeName", "typeParameters"}
    \/ ~outcome.ok /\ outcome.desc = NoTypeName

\* the read failed when the text has a character outside the grammar, a digit at
\* the start of a name or an identifier character after an ended name
readerRejects ==
    (\E k \in DOMAIN inTypeName :
        \/ inTypeName[k] \notin GrammarChars
        \/ digitStartsName(inTypeName, k)
        \/ identifierAfterName(inTypeName, k))
    => ~outcome.ok

\* the text is name "<" name ">" rest: the first "<" opens a parameter that is a
\* plain name, closed by the first ">"
closedPlainParameter ==
    LET open == indexOf(inTypeName, <<"<">>)
        close == indexOf(inTypeName, <<">">>)
    IN  /\ open >= 0
        /\ close > open
        /\ \A k \in 1..close : k # open + 1 => isIdentifierChar(inTypeName[k], 1) \/ inTypeName[k] = " "

\* the plain name between the first "<" and the first ">"
closedParameterName ==
    withoutSpaces(substring(inTypeName, indexOf(inTypeName, <<"<">>) + 1,
                            indexOf(inTypeName, <<">">>)))

\* what follows the ">" was not read into the parameter it closed
closeEndsTheParameter ==
    (closedPlainParameter /\ outcome.ok) =>
        /\ Len(outcome.desc.typeParameters) >= 1
        /\ outcome.desc.typeParameters[1] = GenericTypeName(closedParameterName, <<>>)

\* C23: the read of a type name ends, with a descriptor or with the grammar error;
\* it fails on a character outside the grammar, on a digit at the start of a name
\* and on an identifier character after an ended name; and what follows a ">" is
\* read at the enclosing level, not into the generic the ">" closed.
C23_ReaderGrammar ==
    phase = "done" =>
        /\ readerReturnsOrFails
        /\ readerRejects
        /\ closeEndsTheParameter

(***************************************************************************)
(* Properties of the help page.                                            *)
(***************************************************************************)
RECURSIVE alphabeticallyBefore(_, _)
\* a comes strictly before b in the alphabet, case aside
alphabeticallyBefore(a, b) ==
    IF b = <<>> THEN FALSE
    ELSE IF a = <<>> THEN TRUE
    ELSE IF letterRank(a[1]) # letterRank(b[1]) THEN letterRank(a[1]) < letterRank(b[1])
    ELSE alphabeticallyBefore(Tail(a), Tail(b))

\* the names of the rows of a table, in order
rowNames(rows) == [k \in DOMAIN rows |-> rows[k].name]

\* the children the metadata has for the member at a path
childrenOf(path) ==
    {q[Len(q)] : q \in {r \in DOMAIN instance.metaInterface :
                            Len(r) = Len(path) + 1 /\ SubSeq(r, 1, Len(path)) = path}}

isSortedByName(names) ==
    \A i, j \in DOMAIN names : i < j => alphabeticallyBefore(names[i], names[j])

\* C24: on a help page for the root or a group, the GROUPS list holds exactly the
\* children that are objects and the COMMANDS list exactly the scalar and method
\* children, each child once, and each list is in alphabetical order of the names.
C24_GroupsAndCommands ==
    \A k \in DOMAIN helpOut :
        LET page == helpOut[k]
            path == page.context.path
            groups == rowNames(page.groups)
            commands == rowNames(page.commands)
        IN  page.context.kind \in {"interface", "objectType"} =>
                /\ {groups[i] : i \in DOMAIN groups} =
                        {c \in childrenOf(path) : tree[Append(path, c)] = "object"}
                /\ {commands[i] : i \in DOMAIN commands} =
                        {c \in childrenOf(path) : tree[Append(path, c)] # "object"}
                /\ Len(groups) + Len(commands) = Cardinality(childrenOf(path))
                /\ isSortedByName(groups)
                /\ isSortedByName(commands)

C24_Witness ==
    /\ pc = "done"
    /\ instance.program = DemoProgram
    /\ rawArgs = <<helpWord, foo>>
    /\ Len(helpOut) = 1
    /\ rowNames(helpOut[1].groups) = <<>>
    /\ rowNames(helpOut[1].commands) = <<bar, nameProp, stuff>>

\* the children of a path that are groups, and those that are commands
groupChildren(path) == {c \in childrenOf(path) : tree[Append(path, c)] = "object"}
commandChildren(path) == {c \in childrenOf(path) : tree[Append(path, c)] # "object"}

\* C25: the USAGE line of a help page has the command path, GROUP exactly when
\* the context has a group child, COMMAND exactly when it has a scalar or method
\* child, the bar between them exactly when it has both, and then the declared
\* parameters in their order, each bracketed exactly when its type is nullable.
C25_UsageLine ==
    \A k \in DOMAIN helpOut :
        LET page == helpOut[k]
            path == page.context.path
            declared == declaredParameters(instance.metaInterface, path)
        IN  /\ page.usage.label = page.label
            /\ page.usage.group <=> groupChildren(path) # {}
            /\ page.usage.command <=> commandChildren(path) # {}
            /\ page.usage.bar <=> (groupChildren(path) # {} /\ commandChildren(path) # {})
            /\ Len(page.usage.parameters) = Len(declared)
            /\ \A i \in DOMAIN declared :
                  /\ page.usage.parameters[i].pname = declared[i].pname
                  /\ page.usage.parameters[i].bracketed <=> declared[i].nullable

C25_Witness ==
    /\ pc = "done"
    /\ instance.program = DemoProgram
    /\ rawArgs = <<helpWord, foo, bar>>
    /\ Len(helpOut) = 1
    /\ helpOut[1].usage =
          [label |-> <<foo, bar>>, group |-> FALSE, bar |-> FALSE, command |-> FALSE,
           parameters |-> <<[pname |-> "baz", bracketed |-> FALSE],
                            [pname |-> "bat", bracketed |-> TRUE]>>]

\* the text is there and is not empty
hasText(text) == text # Undefined /\ text.length > 0

\* C26: the NAME section of the help page of a member shows the path and a
\* one-line summary: the summary of the member when it has one, otherwise its
\* description, cut to one line; there is no summary only when it has neither.
C26_NameSection ==
    \A k \in DOMAIN helpOut :
        LET page == helpOut[k]
            path == page.context.path
            member == instance.metaInterface[path]
        IN  (path # <<>> /\ path \in DOMAIN instance.metaInterface) =>
                /\ page.name.label = path
                /\ IF hasText(member.summary)
                      THEN /\ page.name.summary # Undefined
                           /\ page.name.summary.words = member.summary.words
                   ELSE IF hasText(member.description)
                      THEN /\ page.name.summary # Undefined
                           /\ page.name.summary.words = member.description.words
                           /\ page.name.summary.length <= SummaryLength
                   ELSE page.name.summary = Undefined

(***************************************************************************)
(* Properties of the promise of Cli.run.                                   *)
(***************************************************************************)
\* C27: the promise Cli.run returned is settled only once the terminal action of the
\* run is complete: it is not fulfilled while the invoked callable is pending, and a
\* failure of the run is not left as a rejection nobody observes while the promise
\* is fulfilled.
C27_RunPromiseSettlesLast ==
    runPromise = "fulfilled" =>
        /\ pc # "awaiting"
        /\ pc # "rejected"

\* every component of the path is a member of the metadata context reached so far
pathInMetadata(path) ==
    \A k \in 1..Len(path) :
        /\ SubSeq(path, 1, k) \in DOMAIN instance.metaInterface
        /\ k > 1 => instance.metaInterface[SubSeq(path, 1, k - 1)].kind = "objectProperty"

\* C28: when help is asked for a path with a component that is no member of the
\* metadata context reached so far, or that goes through a context that is no
\* group, showHelp fails with the unknown-command or the invalid-path error and no
\* page is written.
C28_HelpValidatesPath ==
    (started /\ context.kind = "showHelp" /\ ~pathInMetadata(positionalArgs)) =>
        /\ helpOut = <<>>
        /\ Len(thrown) = 1
        /\ thrown[1] \in {"Unknown command or group", "Invalid command path"}

(***************************************************************************)
(* Properties of the token loop as a whole.                                *)
(***************************************************************************)
\* the ways the loop may consume the token arg
consumedAsHelp ==
    /\ context.kind = "live"
    /\ context'.kind = "showHelp"
    /\ contextDepth' = contextDepth + 1
    /\ UNCHANGED <<positionalArgs, flags>>

consumedAsDescent ==
    /\ context' = [kind |-> "live", path |-> Append(context.path, arg)]
    /\ contextDepth' = contextDepth + 1
    /\ UNCHANGED <<positionalArgs, flags>>

consumedAsFlag ==
    /\ isFlagToken(arg)
    /\ flags' = setFlag(flags, flagName(arg), flagValue(arg))
    /\ UNCHANGED <<context, contextDepth, positionalArgs>>

consumedAsPositional ==
    /\ positionalArgs' = Append(positionalArgs, arg)
    /\ UNCHANGED <<context, contextDepth, flags>>

\* C29: every iteration of the token loop consumes its token as exactly one of the
\* help keyword, a descent into the tree, a flag and a positional, whatever the type
\* of the live member the token names; so the descents, the help keyword, the flag
\* tokens and the positionals add up to the number of tokens.
C29_TokenConservation ==
    [][inLoop =>
          /\ argIndex' = argIndex + 1
          /\ \/ consumedAsHelp /\ ~consumedAsDescent /\ ~consumedAsFlag /\ ~consumedAsPositional
             \/ ~consumedAsHelp /\ consumedAsDescent /\ ~consumedAsFlag /\ ~consumedAsPositional
             \/ ~consumedAsHelp /\ ~consumedAsDescent /\ consumedAsFlag /\ ~consumedAsPositional
             \/ ~consumedAsHelp /\ ~consumedAsDescent /\ ~consumedAsFlag /\ consumedAsPositional
      ]_vars

====
